---- MODULE Spec2Model ----
(***************************************************************************)
(* Model of maskedtabtransformertf/models/fttransformer.py:                *)
(* FTTransformerEncoder (construction, call) and FTTransformer             *)
(* (construction, call, masked_mse, train_step).                           *)
(*                                                                         *)
(* Tensors are modelled for ONE example of the batch (the batch axis is    *)
(* elementwise everywhere in the source).  A tensor of raw values is a     *)
(* sequence of integers; an encoded sequence records, per sequence         *)
(* position, the column that was embedded there and its raw value, plus    *)
(* the number of attention blocks it went through.  TransformerBlock,      *)
(* CEmbedding, NEmbedding and Dense are external layers: they are          *)
(* represented by deterministic stand-ins that keep the shapes and the     *)
(* data dependencies of the real layers.                                   *)
(***************************************************************************)
EXTENDS Integers, Sequences, FiniteSets, TLC

VARIABLES
    encoder,   \* the FTTransformerEncoder object built so far (or NoObj)
    model,     \* the FTTransformer object built so far (or NoObj)
    params,    \* trainable variables: parameter group -> number of updates applied
    metrics,   \* self.metrics: sequence of tracked metric objects
    last       \* the last operation, its input and its outcome

vars == <<encoder, model, params, metrics, last>>

----------------------------------------------------------------------------
(* Bounds of the model *)

\* the largest total number of schema features (categorical + numerical)
MaxFeat == 2

\* the largest number of attention blocks
MaxDepth == 2

\* the largest number of optimizer updates followed
MaxUpdates == 2

\* feature names a schema is drawn from
SchemaNames == {"city", "age"}

\* keys an input batch may carry ("zip" is never a schema column)
BatchKeys == {"city", "age", "zip"}

\* (embedding_dim, heads) configurations, heads dividing embedding_dim
DimHeads == {<<2, 1>>, <<4, 2>>}

\* the rows of raw values the batches are drawn from (one example each)
Rows ==
    { [k \in BatchKeys |-> CASE k = "city" -> 1 [] k = "age" -> 2 [] OTHER -> 3] }

\* the scalars a reconstruction vector is drawn from
PredVals == {1}

\* the metric lists compile() may have registered
MetricLists == { <<"loss">>, <<"mae", "loss">> }

----------------------------------------------------------------------------
(* Generic helpers *)

NoObj == [class |-> "None"]

Ok(v) == [status |-> "ok", value |-> v]

Raise(e) == [status |-> "raise", exc |-> e]

\* injective sequences over S of length at most n
InjSeqs(S, n) ==
    UNION { { s \in [1..k -> S] : \A i, j \in 1..k : i # j => s[i] # s[j] } : k \in 0..n }

RECURSIVE SumTo(_, _)
SumTo(f, n) == IF n = 0 THEN 0 ELSE f[n] + SumTo(f, n - 1)

\* an input batch: a mapping with an iteration order, as a sequence of items
Batches ==
    { [i \in 1..Len(ks) |-> [key |-> ks[i], val |-> r[ks[i]]]] :
        ks \in InjSeqs(BatchKeys, Cardinality(BatchKeys)), r \in Rows }

Keys(batch) == { batch[i].key : i \in 1..Len(batch) }

\* inputs[c]
GetItem(batch, c) == (CHOOSE i \in 1..Len(batch) : batch[i].key = c)

Lookup(batch, c) == batch[GetItem(batch, c)].val

\* the schemas construction is tried with (overlapping lists included)
Schemas ==
    { s \in InjSeqs(SchemaNames, MaxFeat) \X InjSeqs(SchemaNames, MaxFeat) :
        Len(s[1]) + Len(s[2]) <= MaxFeat }

----------------------------------------------------------------------------
(* FTTransformerEncoder *)

\* FTTransformerEncoder.__init__
NewEncoderObj(cat, num, ed, depth, heads, explainable) ==
    [ class |-> "FTTransformerEncoder",
      numerical |-> num,
      categorical |-> cat,
      embedding_dim |-> ed,
      explainable |-> explainable,
      depth |-> depth,
      heads |-> heads ]

\* Gather, taking the batch's values in the batch's own iteration order
GatherByBatchOrder(features, batch) ==
    [i \in 1..Len(features) |-> batch[i].val]

\* the columns gathered for one embedding module, in the order of `features`
Gather(features, batch) ==
    [i \in 1..Len(features) |-> Lookup(batch, features[i])]

\* CEmbedding / NEmbedding: one vector of length embedding_dim per column
Embed(kind, features, raw, ed) ==
    [i \in 1..Len(features) |->
        [col |-> features[i], kind |-> kind, val |-> raw[i], dim |-> ed]]

\* TransformerBlock applied to a sequence: same shape, one more block applied
Block(x) == [x EXCEPT !.layers = @ + 1]

\* TransformerBlock's attention weights (heads, seq, seq) for its input x
AttWeights(x, heads) ==
    [h \in 1..heads |->
        [i \in 1..Len(x.tokens) |->
            [j \in 1..Len(x.tokens) |->
                (x.tokens[i].val + 2 * x.tokens[j].val + h + x.layers + i * j) % 3]]]

\* the input of block l (1-based) of the stack, given the stack's input
RECURSIVE LayerInput(_, _)
LayerInput(x, l) == IF l = 1 THEN x ELSE Block(LayerInput(x, l - 1))

\* HeadSum, slicing the attention paid TO the first position (att_weights[:, :, :, 0])
HeadSumToFirst(w) ==
    [j \in 1..Len(w[1][1]) |-> SumTo([h \in 1..Len(w) |-> w[h][j][1]], Len(w))]

\* tf.reduce_sum(att_weights[:, :, 0, :], axis=1)
HeadSum(w) ==
    [j \in 1..Len(w[1][1]) |-> SumTo([h \in 1..Len(w) |-> w[h][1][j]], Len(w))]

\* importances as an exact fraction: tf.reduce_sum(tf.stack(...), axis=0) / (depth * heads)
Importances(perLayer, depth, heads) ==
    [ num |-> [j \in 1..Len(perLayer[1]) |->
                  SumTo([l \in 1..Len(perLayer) |-> perLayer[l][j]], Len(perLayer))],
      den |-> depth * heads ]

\* FTTransformerEncoder.call
EncoderCall(enc, batch) ==
    LET cat == enc.categorical
        num == enc.numerical
        missing == { c \in {cat[i] : i \in 1..Len(cat)} \cup {num[i] : i \in 1..Len(num)} :
                        c \notin Keys(batch) }
    IN  IF missing # {} THEN Raise("KeyError")
        ELSE IF Len(cat) = 0 /\ Len(num) = 0 THEN Raise("ValueError")
        ELSE
          LET catEmbs == Embed("cat", cat, Gather(cat, batch), enc.embedding_dim)
              numEmbs == Embed("num", num, Gather(num, batch), enc.embedding_dim)
              x0 == [tokens |-> catEmbs \o numEmbs, dim |-> enc.embedding_dim, layers |-> 0]
              out == LayerInput(x0, enc.depth + 1)
              perLayer == [l \in 1..enc.depth |->
                              HeadSum(AttWeights(LayerInput(x0, l), enc.heads))]
          IN  IF enc.explainable
              THEN Ok([x |-> out,
                       importances |-> Importances(perLayer, enc.depth, enc.heads)])
              ELSE Ok([x |-> out])

----------------------------------------------------------------------------
(* FTTransformer *)

\* parameters of FTTransformerEncoder.__init__ that have no default value
EncoderRequiredArgs ==
    {"categorical_features", "numerical_features", "numerical_data", "categorical_data"}

\* keyword arguments FTTransformer.__init__ passes when it builds the encoder itself
EncoderPassedArgs ==
    {"categorical_features", "numerical_features", "embedding_dim", "depth", "heads",
     "attn_dropout", "ff_dropout", "numerical_embedding_type", "explainable"}

\* the parameter groups of self.trainable_variables
ParamGroups == {"embeddings", "transformers", "masked_predictions_layer"}

\* FTTransformer.__init__; encoderArg is the `encoder` argument (NoObj for None)
FTTransformerInit(encoderArg, cat, num, ed, depth, heads, explainable) ==
    LET built == IF EncoderRequiredArgs \subseteq EncoderPassedArgs
                 THEN Ok(NewEncoderObj(cat, num, ed, depth, heads, explainable))
                 ELSE Raise("TypeError")
        enc == IF encoderArg # NoObj THEN Ok(encoderArg) ELSE built
    IN  IF enc.status = "raise" THEN enc
        ELSE LET nf == Len(enc.value.numerical) + Len(enc.value.categorical)
             IN  Ok([ class |-> "FTTransformer",
                      encoder |-> enc.value,
                      num_features |-> nf,
                      masked_predictions_layer |-> [units |-> nf] ])

\* self.<name>: the attributes an instance has are the fields __init__ assigned
HasAttr(self, name) == name \in DOMAIN self

\* tf.reshape(x, [-1, width]) of one example's encoded sequence
Reshape(x, width) ==
    LET size == Len(x.tokens) * x.dim
    IN  IF width = 0 \/ size % width # 0 THEN Raise("InvalidArgumentError")
        ELSE Ok([ rows |-> size \div width,
                  width |-> width,
                  sig |-> SumTo([i \in 1..Len(x.tokens) |-> i * x.tokens[i].val],
                                Len(x.tokens)) + x.layers ])

\* Dense(units): one scalar per unit from the flattened row and the layer's weights
Dense(layer, flat, p) ==
    [i \in 1..layer.units |-> (flat.sig + p["masked_predictions_layer"] + i) % 3]

\* FTTransformer.call
Call(self, inputs, p) ==
    LET e == EncoderCall(self.encoder, inputs)
    IN  IF e.status = "raise" THEN e
        ELSE IF ~HasAttr(self, "embedding_dim") THEN Raise("AttributeError")
        ELSE
          LET r == Reshape(e.value.x, self.num_features * self.embedding_dim)
          IN  IF r.status = "raise" THEN r
              ELSE
                LET masked_preds == Dense(self.masked_predictions_layer, r.value, p)
                IN  IF self.encoder.explainable
                    THEN Ok([masked_preds |-> masked_preds,
                             importances |-> e.value.importances])
                    ELSE Ok([masked_preds |-> masked_preds])

\* tf.cast(tf.concat(list(y.values()), axis=-1), dtype='float32')
TargetTensor(y) ==
    [dtype |-> "float32", v |-> [i \in 1..Len(y) |-> y[i].val]]

\* y_true - y_pred with TensorFlow's broadcasting of the last axis
BroadcastSub(a, b) ==
    IF Len(a) = Len(b) THEN Ok([i \in 1..Len(a) |-> a[i] - b[i]])
    ELSE IF Len(a) = 1 THEN Ok([i \in 1..Len(b) |-> a[1] - b[i]])
    ELSE IF Len(b) = 1 THEN Ok([i \in 1..Len(a) |-> a[i] - b[1]])
    ELSE Raise("InvalidArgumentError")

\* FTTransformer.masked_mse: the mean as an exact fraction
masked_mse(y_true, y_pred) ==
    LET d == BroadcastSub(y_true.v, y_pred)
    IN  IF d.status = "raise" THEN d
        ELSE Ok([ sum |-> SumTo([i \in 1..Len(d.value) |-> d.value[i] * d.value[i]],
                                Len(d.value)),
                  count |-> Len(d.value) ])

\* ApplyGradients, updating the reconstruction head only
ApplyGradientsHeadOnly(p, gradients) ==
    [g \in DOMAIN p |-> IF g = "masked_predictions_layer" THEN p[g] + 1 ELSE p[g]]

\* self.optimizer.apply_gradients(zip(gradients, trainable_vars))
ApplyGradients(p, gradients) ==
    [g \in DOMAIN p |-> IF g \in DOMAIN gradients THEN p[g] + 1 ELSE p[g]]

\* the metric-update loop of train_step
UpdateMetrics(ms, loss, y, preds) ==
    [i \in 1..Len(ms) |->
        IF ms[i].name = "loss"
        THEN [name |-> ms[i].name, updates |-> ms[i].updates + 1,
              state |-> [args |-> 1, loss |-> loss]]
        ELSE [name |-> ms[i].name, updates |-> ms[i].updates + 1,
              state |-> [args |-> 2, y_true |-> y, y_pred |-> preds]]]

\* {m.name: m.result() for m in self.metrics}
MetricResults(ms) ==
    [n \in {ms[i].name : i \in 1..Len(ms)} |->
        LET i == CHOOSE k \in 1..Len(ms) :
                    ms[k].name = n /\ \A k2 \in k + 1..Len(ms) : ms[k2].name # n
        IN  [updates |-> ms[i].updates, state |-> ms[i].state]]

\* train_step after the forward pass returned y_pred: target, loss, gradients,
\* optimizer update, metric updates, return
TrainStepTail(y, y_pred, p, ms) ==
    IF Len(y) = 0
    THEN [status |-> "raise", exc |-> "ValueError", trace |-> <<"forward">>,
          params |-> p, metrics |-> ms]
    ELSE
      LET y_true_tensor == TargetTensor(y)
          loss == masked_mse(y_true_tensor, y_pred.masked_preds)
      IN  IF loss.status = "raise"
          THEN [status |-> "raise", exc |-> loss.exc, trace |-> <<"forward">>,
                target |-> y_true_tensor, params |-> p, metrics |-> ms]
          ELSE
            LET gradients == [g \in DOMAIN p |-> loss.value]
                p2 == ApplyGradients(p, gradients)
                ms2 == UpdateMetrics(ms, loss.value, y, y_pred.masked_preds)
            IN  [status |-> "ok", value |-> MetricResults(ms2),
                 trace |-> <<"forward", "loss", "gradient", "update", "metrics", "return">>,
                 target |-> y_true_tensor, loss |-> loss.value,
                 params |-> p2, metrics |-> ms2]

\* FTTransformer.train_step
TrainStepFn(self, data, p, ms) ==
    LET y_pred == Call(self, data, p)
    IN  IF y_pred.status = "raise"
        THEN [status |-> "raise", exc |-> y_pred.exc, trace |-> <<>>,
              params |-> p, metrics |-> ms]
        ELSE TrainStepTail(data, y_pred.value, p, ms)

----------------------------------------------------------------------------
(* The state machine: the objects built so far and the calls made on them *)

\* defaults of FTTransformer.__init__ used when it builds the encoder itself
DefaultEmbeddingDim == 32

DefaultDepth == 4

DefaultHeads == 8

\* metric objects as compile() leaves them
FreshMetrics(names) ==
    [i \in 1..Len(names) |-> [name |-> names[i], updates |-> 0, state |-> [args |-> 0]]]

Init ==
    /\ encoder = NoObj
    /\ model = NoObj
    /\ params = [g \in ParamGroups |-> 0]
    /\ metrics = <<>>
    /\ last = [op |-> "init"]

\* FTTransformerEncoder(categorical_features, numerical_features, ...)
NewEncoder ==
    /\ encoder = NoObj
    /\ \E s \in Schemas, dh \in DimHeads, depth \in 1..MaxDepth, explainable \in BOOLEAN :
          LET obj == NewEncoderObj(s[1], s[2], dh[1], depth, dh[2], explainable)
          IN  /\ encoder' = obj
              /\ last' = [op |-> "new_encoder", categorical |-> s[1], numerical |-> s[2],
                          out |-> Ok(obj)]
    /\ UNCHANGED <<model, params, metrics>>

\* FTTransformer(out_dim, out_activation, encoder=encoder)
NewModelWithEncoder ==
    /\ model = NoObj
    /\ encoder # NoObj
    /\ \E names \in MetricLists :
          LET out == FTTransformerInit(encoder, <<>>, <<>>, DefaultEmbeddingDim,
                                       DefaultDepth, DefaultHeads, FALSE)
          IN  /\ last' = [op |-> "new_model", encoderArg |-> encoder, out |-> out]
              /\ IF out.status = "ok"
                 THEN model' = out.value /\ metrics' = FreshMetrics(names)
                 ELSE UNCHANGED <<model, metrics>>
    /\ UNCHANGED <<encoder, params>>

\* FTTransformer(out_dim, out_activation, categorical_features=..., numerical_features=...)
NewModelFromLists ==
    /\ model = NoObj
    /\ \E s \in Schemas, names \in MetricLists :
          LET out == FTTransformerInit(NoObj, s[1], s[2], DefaultEmbeddingDim,
                                       DefaultDepth, DefaultHeads, FALSE)
          IN  /\ last' = [op |-> "new_model", encoderArg |-> NoObj,
                          categorical |-> s[1], numerical |-> s[2], out |-> out]
              /\ IF out.status = "ok"
                 THEN model' = out.value /\ metrics' = FreshMetrics(names)
                 ELSE UNCHANGED <<model, metrics>>
    /\ UNCHANGED <<encoder, params>>

\* encoder(inputs)
EncoderCallOp ==
    /\ encoder # NoObj
    /\ \E batch \in Batches :
          last' = [op |-> "encoder_call", batch |-> batch, out |-> EncoderCall(encoder, batch)]
    /\ UNCHANGED <<encoder, model, params, metrics>>

\* model(inputs)
CallOp ==
    /\ model # NoObj
    /\ \E batch \in Batches :
          last' = [op |-> "call", batch |-> batch, out |-> Call(model, batch, params)]
    /\ UNCHANGED <<encoder, model, params, metrics>>

\* what `last` keeps of a training step's outcome
StepOutcome(r) == [f \in DOMAIN r \ {"params", "metrics"} |-> r[f]]

\* model.train_step(data)
TrainStep ==
    /\ model # NoObj
    /\ \A g \in ParamGroups : params[g] < MaxUpdates
    /\ \E batch \in Batches :
          LET r == TrainStepFn(model, batch, params, metrics)
          IN  /\ params' = r.params
              /\ metrics' = r.metrics
              /\ last' = [op |-> "train_step", batch |-> batch, out |-> StepOutcome(r)]
    /\ UNCHANGED <<encoder, model>>

Next == NewEncoder \/ NewModelWithEncoder \/ NewModelFromLists \/ EncoderCallOp \/ CallOp \/ TrainStep

Spec == Init /\ [][Next]_vars

\* the columns of the sequence, by position: categorical then numerical
SeqCols(enc) == enc.categorical \o enc.numerical

Cols(enc) == { SeqCols(enc)[i] : i \in 1..Len(SeqCols(enc)) }

\* lines 216-233 of train_step applied to a batch that supplies every schema column
\* and to a forward result of the head's shape (one scalar per unit of the Dense layer)
StepTail ==
    /\ model # NoObj
    /\ \A g \in ParamGroups : params[g] < MaxUpdates
    /\ \E batch \in Batches :
          /\ Cols(model.encoder) \subseteq Keys(batch)
          /\ \E preds \in [1..model.masked_predictions_layer.units -> PredVals] :
                LET r == TrainStepTail(batch, [masked_preds |-> preds], params, metrics)
                IN  /\ params' = r.params
                    /\ metrics' = r.metrics
                    /\ last' = [op |-> "step_tail", batch |-> batch, preds |-> preds,
                                out |-> StepOutcome(r)]
    /\ UNCHANGED <<encoder, model>>

\* a compiled model wrapping a pre-built encoder with at least one feature
InitTail ==
    /\ \E s \in Schemas, dh \in DimHeads, names \in MetricLists :
          /\ Len(s[1]) + Len(s[2]) >= 1
          /\ encoder = NewEncoderObj(s[1], s[2], dh[1], 1, dh[2], FALSE)
          /\ model = FTTransformerInit(encoder, <<>>, <<>>, DefaultEmbeddingDim,
                                       DefaultDepth, DefaultHeads, FALSE).value
          /\ metrics = FreshMetrics(names)
    /\ params = [g \in ParamGroups |-> 0]
    /\ last = [op |-> "init"]

NextTail == TrainStep \/ StepTail

\* train_step, and the rest of train_step applied to forward results
SpecTail == InitTail /\ [][NextTail]_vars

----------------------------------------------------------------------------
(* Properties *)

\* a schema the specification calls valid: at least one feature, disjoint lists
ValidSchema(enc) ==
    /\ Len(SeqCols(enc)) >= 1
    /\ \A i \in 1..Len(enc.categorical), j \in 1..Len(enc.numerical) :
          enc.categorical[i] # enc.numerical[j]

\* the batches that map the same keys to the same values as b, in any key order
SameMapping(b) ==
    { b2 \in Batches : /\ Keys(b2) = Keys(b)
                       /\ \A k \in Keys(b) : Lookup(b2, k) = Lookup(b, k) }

IsStep(l) == l.op \in {"train_step", "step_tail"}

\* C1: for a valid schema and a batch supplying every schema column, forward returns
\* normally with a 'masked_preds' vector of length num_features.
C1_ForwardReturnsNumFeatures ==
    (last.op = "call" /\ ValidSchema(model.encoder)
        /\ Cols(model.encoder) \subseteq Keys(last.batch))
    => /\ last.out.status = "ok"
       /\ Len(last.out.value.masked_preds) = model.num_features

C3_KeyOrderInvariant ==
    /\ last.op = "encoder_call"
          => \A b2 \in SameMapping(last.batch) : EncoderCall(encoder, b2) = last.out
    /\ last.op = "call"
          => \A b2 \in SameMapping(last.batch) : Call(model, b2, params) = last.out

\* C3 witness: the encoder encoded a batch of at least two schema columns whose keys
\* do not iterate in schema order.
C3_Witness ==
    /\ last.op = "encoder_call"
    /\ last.out.status = "ok"
    /\ Len(last.out.value.x.tokens) >= 2
    /\ \E i \in 1..Len(last.out.value.x.tokens) :
          last.batch[i].key # last.out.value.x.tokens[i].col

\* C4: a training step that returns normally has applied exactly one update to every
\* parameter group; a step that raises before the optimizer update leaves every
\* parameter as it was; no step updates only some of the parameters.
C4_StepAllOrNothing ==
    [][ IsStep(last')
        => /\ last'.out.status = "ok"
                => \A g \in ParamGroups : params'[g] = params[g] + 1
           /\ (last'.out.status = "raise" /\ \A i \in 1..Len(last'.out.trace) :
                                                last'.out.trace[i] # "update")
                => params' = params
           /\ \/ params' = params
              \/ \A g \in ParamGroups : params'[g] = params[g] + 1 ]_vars

\* C4 witness: a step raised after an earlier step had updated every parameter once,
\* and the parameters are still those of that one update.
C4_Witness ==
    /\ IsStep(last)
    /\ last.out.status = "raise"
    /\ \A g \in ParamGroups : params[g] = 1

C6_BothConstructionsSucceed ==
    last.op = "new_model"
    => /\ last.out.status = "ok"
       /\ last.out.value.num_features = Len(SeqCols(last.out.value.encoder))
       /\ last.encoderArg # NoObj => last.out.value.encoder = last.encoderArg
       /\ last.encoderArg = NoObj
             => /\ last.out.value.encoder.categorical = last.categorical
                /\ last.out.value.encoder.numerical = last.numerical

\* C7: constructing the encoder with a name in both lists is rejected, so no encoder
\* with overlapping lists exists.
C7_OverlapRejected ==
    /\ (/\ last.op = "new_encoder"
        /\ \E i \in 1..Len(last.categorical), j \in 1..Len(last.numerical) :
              last.categorical[i] = last.numerical[j])
          => last.out.status = "raise"
    /\ encoder # NoObj
          => \A i \in 1..Len(encoder.categorical), j \in 1..Len(encoder.numerical) :
                encoder.categorical[i] # encoder.numerical[j]

\* C8: forward returns a bundle that has 'masked_preds', has 'importances' exactly
\* when the encoder is explainable, and whose 'masked_preds' equals the one the same
\* model returns with explainable switched.
C8_BundleKeys ==
    (last.op = "call" /\ ValidSchema(model.encoder)
        /\ Cols(model.encoder) \subseteq Keys(last.batch))
    => /\ last.out.status = "ok"
       /\ "masked_preds" \in DOMAIN last.out.value
       /\ ("importances" \in DOMAIN last.out.value) <=> model.encoder.explainable
       /\ LET other == [model EXCEPT !.encoder.explainable = ~@]
              o == Call(other, last.batch, params)
          IN  o.status = "ok" /\ o.value.masked_preds = last.out.value.masked_preds

\* C9: with explainable enabled the importances have one entry per sequence position,
\* each the sum over all blocks and heads of the attention row of position 0, over
\* depth * heads, and none is negative.
C9_Importances ==
    (last.op = "encoder_call" /\ last.out.status = "ok" /\ encoder.explainable)
    => LET imp == last.out.value.importances
           x0 == [last.out.value.x EXCEPT !.layers = 0]
           row(l, h) == AttWeights(LayerInput(x0, l), encoder.heads)[h][1]
           total(j) ==
               SumTo([l \in 1..encoder.depth |->
                         SumTo([h \in 1..encoder.heads |-> row(l, h)[j]], encoder.heads)],
                     encoder.depth)
       IN  /\ Len(imp.num) = Len(SeqCols(encoder))
           /\ imp.den = encoder.depth * encoder.heads
           /\ \A j \in 1..Len(imp.num) : imp.num[j] = total(j) /\ imp.num[j] >= 0

\* C9 witness: an explainable encoder of two blocks and two heads encoded a sequence
\* of two columns and returned a positive importance.
C9_Witness ==
    /\ last.op = "encoder_call"
    /\ last.out.status = "ok"
    /\ encoder.explainable
    /\ encoder.depth = 2
    /\ encoder.heads = 2
    /\ Len(last.out.value.importances.num) = 2
    /\ last.out.value.importances.num[2] > 0

\* C10: a train_step on a batch of exactly the schema's columns runs forward, loss,
\* gradient, update, metric updates and return in this order; the metric named
\* 'loss' receives the scalar loss alone, every other metric the pair (target batch,
\* reconstruction vector), and the returned mapping has one entry per metric.
C10_StepOrderAndMetrics ==
    (last.op = "train_step" /\ ValidSchema(model.encoder)
        /\ Keys(last.batch) = Cols(model.encoder))
    => /\ last.out.status = "ok"
       /\ last.out.trace = <<"forward", "loss", "gradient", "update", "metrics", "return">>
       /\ DOMAIN last.out.value = { metrics[i].name : i \in 1..Len(metrics) }
       /\ \A i \in 1..Len(metrics) :
             /\ metrics[i].state.args = IF metrics[i].name = "loss" THEN 1 ELSE 2
             /\ metrics[i].name = "loss" => metrics[i].state.loss = last.out.loss
             /\ metrics[i].name # "loss" => metrics[i].state.y_true = last.batch
             /\ last.out.value[metrics[i].name].state = metrics[i].state

====
